---- MODULE Spec2Model ----
(***************************************************************************)
(* Model of the dragon (streak) computation of the DragonList component,   *)
(* of the two grid builders calculateTrendGrid / calculateBeadGrid and of  *)
(* fetchWithRetry.                                                         *)
(*                                                                         *)
(* Strings of the source that are not ASCII are written in pinyin:         *)
(*   '单' = "dan", '双' = "shuang", '大' = "da", '小' = "xiao".            *)
(***************************************************************************)
EXTENDS Integers, Sequences, FiniteSets, TLC

VARIABLES allBlocks, rules, typeKey, rows, trendGrid, beadGrid,
          trendDragons, beadRowDragons,
          pc, retries, backoff, requests, retries0, backoff0, lastError, result

coreVars == <<allBlocks, rules, typeKey, rows, trendGrid, beadGrid,
              trendDragons, beadRowDragons>>
fetchVars == <<pc, retries, backoff, requests, retries0, backoff0, lastError, result>>
vars == <<allBlocks, rules, typeKey, rows, trendGrid, beadGrid,
          trendDragons, beadRowDragons,
          pc, retries, backoff, requests, retries0, backoff0, lastError, result>>

(***************************************************************************)
(* Bounds of the model.                                                    *)
(***************************************************************************)
BaseLen == 26        \* length of the history a run may start from
HeightSpan == 3      \* new blocks have heights BaseLen+1 .. BaseLen+HeightSpan
MaxNew == 2          \* number of blocks that arrive after the start
MaxRows == 2         \* row counts 1..MaxRows are passed to the grid builders
MaxRetries == 3      \* fetchWithRetry is called with retries in 0..MaxRetries
MaxRequests == 6     \* cap on the request counter

(***************************************************************************)
(* Program constants.                                                      *)
(***************************************************************************)
minCols == 24
DefaultThreshold == 3
DefaultBeadRows == 6
DefaultBackoff == 500

null == "null"
EmptyCell == [type |-> null]
TypeKeys == {"type", "sizeType"}

Max(a, b) == IF a >= b THEN a ELSE b

(***************************************************************************)
(* types.ts BlockData, as built by transformTronBlock: type and sizeType   *)
(* are derived from resultValue.  hash and timestamp are not read by the   *)
(* algorithms and are left out.                                            *)
(***************************************************************************)
transformTronBlock(height, resultValue) ==
  [height |-> height,
   resultValue |-> resultValue,
   type |-> IF resultValue % 2 = 0 THEN "EVEN" ELSE "ODD",
   sizeType |-> IF resultValue >= 5 THEN "BIG" ELSE "SMALL"]

(***************************************************************************)
(* Array.prototype.sort with the comparators (a, b) => a.height - b.height *)
(* and (a, b) => b.height - a.height.  The sort is stable.                 *)
(***************************************************************************)
\* the comparator is reversed: b goes after the elements that are not smaller
InsertAscendingReversed(s, b) ==
  LET k == Cardinality({i \in 1..Len(s) : s[i].height >= b.height})
  IN SubSeq(s, 1, k) \o <<b>> \o SubSeq(s, k + 1, Len(s))

InsertAscending(s, b) ==
  LET k == Cardinality({i \in 1..Len(s) : s[i].height <= b.height})
  IN SubSeq(s, 1, k) \o <<b>> \o SubSeq(s, k + 1, Len(s))

\* the elements s[lo..hi] inserted one after the other, left to right, into acc;
\* the range is split in halves, which keeps the nesting of the evaluation small
RECURSIVE InsertAllAscending(_, _, _, _)
InsertAllAscending(s, lo, hi, acc) ==
  IF lo > hi THEN acc
  ELSE IF lo = hi THEN InsertAscending(acc, s[lo])
  ELSE LET mid == (lo + hi) \div 2
           left == InsertAllAscending(s, lo, mid, acc)
       IN IF left = left   \* the left half is evaluated first
          THEN InsertAllAscending(s, mid + 1, hi, left)
          ELSE left

sortAscending(s) == InsertAllAscending(s, 1, Len(s), <<>>)

InsertDescending(s, b) ==
  LET k == Cardinality({i \in 1..Len(s) : s[i].height >= b.height})
  IN SubSeq(s, 1, k) \o <<b>> \o SubSeq(s, k + 1, Len(s))

RECURSIVE InsertAllDescending(_, _, _, _)
InsertAllDescending(s, lo, hi, acc) ==
  IF lo > hi THEN acc
  ELSE IF lo = hi THEN InsertDescending(acc, s[lo])
  ELSE LET mid == (lo + hi) \div 2
           left == InsertAllDescending(s, lo, mid, acc)
       IN IF left = left   \* the left half is evaluated first
          THEN InsertAllDescending(s, mid + 1, hi, left)
          ELSE left

sortDescending(s) == InsertAllDescending(s, 1, Len(s), <<>>)

reverse(s) == [i \in 1..Len(s) |-> s[Len(s) + 1 - i]]

(***************************************************************************)
(* calculateTrendGrid                                                      *)
(***************************************************************************)
PopulatedCell(block, key) == [type |-> block[key], value |-> block.resultValue]

EmptyColumn(n) == [r \in 1..n |-> EmptyCell]

\* a closed column is pushed as it is, without the padding loop
PadColumnUnpadded(column, n) == column

\* while (currentColumn.length < rows) currentColumn.push({ type: null })
PadColumn(column, n) == column \o [r \in 1..(n - Len(column)) |-> EmptyCell]

\* a column is closed one cell too late
TrendBreakLate(currentVal, lastVal, currentColumn, n) ==
  currentVal # lastVal \/ Len(currentColumn) > n

\* the condition that starts a new column
TrendBreak(currentVal, lastVal, currentColumn, n) ==
  currentVal # lastVal \/ Len(currentColumn) >= n

\* one iteration of chronological.forEach
TrendStep(st, block, key, n) ==
  LET currentVal == block[key]
      brk == TrendBreak(currentVal, st.lastVal, st.currentColumn, n)
      columns1 == IF brk /\ Len(st.currentColumn) > 0
                  THEN Append(st.columns, PadColumn(st.currentColumn, n))
                  ELSE st.columns
      column1 == IF brk THEN <<>> ELSE st.currentColumn
      lastVal1 == IF brk THEN currentVal ELSE st.lastVal
  IN [columns |-> columns1,
      currentColumn |-> Append(column1, PopulatedCell(block, key)),
      lastVal |-> lastVal1]

\* chronological.forEach over the blocks lo..hi, from the loop state st;
\* the range is split in halves to keep the evaluation shallow
RECURSIVE TrendWalk(_, _, _, _, _, _)
TrendWalk(chronological, lo, hi, st, key, n) ==
  IF lo > hi THEN st
  ELSE IF lo = hi THEN TrendStep(st, chronological[lo], key, n)
  ELSE LET mid == (lo + hi) \div 2
           left == TrendWalk(chronological, lo, mid, st, key, n)
       IN IF left = left   \* the left half is evaluated first
          THEN TrendWalk(chronological, mid + 1, hi, left, key, n)
          ELSE left

\* while (columns.length < minCols) columns.push(Array(rows).fill({ type: null }))
PadGrid(columns, n) ==
  columns \o [c \in 1..(minCols - Len(columns)) |-> EmptyColumn(n)]

calculateTrendGrid(blocks, key, n) ==
  IF Len(blocks) = 0
  THEN [c \in 1..24 |-> EmptyColumn(n)]
  ELSE LET chronological == sortAscending(blocks)
           st == TrendWalk(chronological, 1, Len(chronological),
                          [columns |-> <<>>, currentColumn |-> <<>>, lastVal |-> null],
                          key, n)
           columns == IF Len(st.currentColumn) > 0
                      THEN Append(st.columns, PadColumn(st.currentColumn, n))
                      ELSE st.columns
       IN PadGrid(columns, n)

(***************************************************************************)
(* calculateBeadGrid                                                       *)
(***************************************************************************)
\* Math.ceil(totalItems / rows)
CeilDiv(a, b) == (a + b - 1) \div b

BeadNumCols(totalItems, n) == Max(minCols, CeilDiv(totalItems, n))

\* the grid is filled row by row
BeadIndexRowMajor(c, r, n) == r * n + c

\* index = c * rows + r, with c and r counted from 0
BeadIndex(c, r, n) == c * n + r

calculateBeadGrid(blocks, key, n) ==
  LET chronological == sortAscending(blocks)
      totalItems == Len(chronological)
      numCols == BeadNumCols(totalItems, n)
  IN [c \in 1..numCols |->
       [r \in 1..n |->
          LET index == BeadIndex(c - 1, r - 1, n)
          IN IF index < totalItems
             THEN PopulatedCell(chronological[index + 1], key)
             ELSE EmptyCell]]

(***************************************************************************)
(* DragonList: the useMemo that computes trendDragons and beadRowDragons   *)
(***************************************************************************)
HasThreshold(rule) == "dragonThreshold" \in DOMAIN rule

\* the lower bound height >= rule.startBlock is forgotten
checkAlignmentUnbounded(rule, height) ==
  IF rule.value <= 1 THEN TRUE
  ELSE IF rule.startBlock > 0
       THEN (height - rule.startBlock) % rule.value = 0
       ELSE height % rule.value = 0

checkAlignment(rule, height) ==
  IF rule.value <= 1 THEN TRUE
  ELSE IF rule.startBlock > 0
       THEN height >= rule.startBlock /\ (height - rule.startBlock) % rule.value = 0
       ELSE height % rule.value = 0

\* allBlocks.filter(b => checkAlignment(b.height)).sort((a, b) => b.height - a.height)
filtered(rule, blocks) ==
  sortDescending(SelectSeq(blocks, LAMBDA b : checkAlignment(rule, b.height)))

\* rule.dragonThreshold || 3
threshold(rule) ==
  IF HasThreshold(rule) /\ rule.dragonThreshold # 0
  THEN rule.dragonThreshold
  ELSE DefaultThreshold

\* latestHeight + rule.value
nextHeight(rule, latestFirst) == latestFirst[1].height + rule.value

\* the loop goes on after a mismatch instead of breaking
StreakStepNoBreak(st, b, key, firstVal) ==
  IF b[key] = firstVal
  THEN [count |-> st.count + 1, broken |-> FALSE]
  ELSE st

\* one iteration of for (const b of ...): if (b[key] === firstVal) count++; else break
StreakStep(st, b, key, firstVal) ==
  IF st.broken THEN st
  ELSE IF b[key] = firstVal
       THEN [count |-> st.count + 1, broken |-> FALSE]
       ELSE [count |-> st.count, broken |-> TRUE]

\* the loop over seq[lo..hi] from the loop state st; the range is split in
\* halves to keep the evaluation shallow
RECURSIVE StreakLoop(_, _, _, _, _, _)
StreakLoop(seq, lo, hi, st, key, firstVal) ==
  IF lo > hi THEN st
  ELSE IF lo = hi THEN StreakStep(st, seq[lo], key, firstVal)
  ELSE LET mid == (lo + hi) \div 2
           left == StreakLoop(seq, lo, mid, st, key, firstVal)
       IN IF left = left   \* the left half is evaluated first
          THEN StreakLoop(seq, mid + 1, hi, left, key, firstVal)
          ELSE left

calculateStreak(latestFirst, key) ==
  LET firstVal == latestFirst[1][key]
      loop == StreakLoop(latestFirst, 1, Len(latestFirst),
                         [count |-> 0, broken |-> FALSE], key, firstVal)
  IN [value |-> firstVal, count |-> loop.count]

calcRowStreak(rowLatest, key) ==
  LET firstVal == rowLatest[1][key]
      loop == StreakLoop(rowLatest, 1, Len(rowLatest),
                         [count |-> 0, broken |-> FALSE], key, firstVal)
  IN [value |-> firstVal, count |-> loop.count]

\* a streak of exactly the threshold is dropped
ReportedStrict(count, limit) == count > limit

\* streak.count >= threshold
Reported(count, limit) == count >= limit

ParityLabel(v) == IF v = "ODD" THEN "dan" ELSE "shuang"
ParityColor(v) == IF v = "ODD" THEN "var(--color-odd)" ELSE "var(--color-even)"
SizeLabel(v) == IF v = "BIG" THEN "da" ELSE "xiao"
SizeColor(v) == IF v = "BIG" THEN "var(--color-big)" ELSE "var(--color-small)"

\* Part A: the trend dragons one rule pushes
TrendPart(rule, latestFirst) ==
  LET pStreak == calculateStreak(latestFirst, "type")
      sStreak == calculateStreak(latestFirst, "sizeType")
      parity == [ruleName |-> rule.label, type |-> "parity",
                 value |-> ParityLabel(pStreak.value), count |-> pStreak.count,
                 color |-> ParityColor(pStreak.value),
                 threshold |-> threshold(rule),
                 nextHeight |-> nextHeight(rule, latestFirst)]
      size == [ruleName |-> rule.label, type |-> "size",
               value |-> SizeLabel(sStreak.value), count |-> sStreak.count,
               color |-> SizeColor(sStreak.value),
               threshold |-> threshold(rule),
               nextHeight |-> nextHeight(rule, latestFirst)]
  IN (IF Reported(pStreak.count, threshold(rule)) THEN <<parity>> ELSE <<>>)
     \o (IF Reported(sStreak.count, threshold(rule)) THEN <<size>> ELSE <<>>)

\* rule.beadRows || 6
beadRowsOf(rule) == IF rule.beadRows # 0 THEN rule.beadRows ELSE DefaultBeadRows

\* the loop steps by 1 instead of by rows
rowItemsStepOne(chrono, r, n) ==
  [j \in 1..(Len(chrono) - r) |-> chrono[r + j]]

\* for (let i = r; i < total; i += rows) rowItems.push(chrono[i]), r counted from 0
rowItems(chrono, r, n) ==
  LET total == Len(chrono)
      cnt == IF r >= total THEN 0 ELSE ((total - 1 - r) \div n) + 1
  IN [j \in 1..cnt |-> chrono[r + (j - 1) * n + 1]]

\* rowLatest[0].height + (rule.value * rows)
rowNextHeight(rule, rowLatest, n) == rowLatest[1].height + (rule.value * n)

\* the row dragons one rule pushes for row r (counted from 0)
RowPart(rule, chrono, r, n) ==
  LET items == rowItems(chrono, r, n)
  IN IF Len(items) = 0 THEN <<>>
     ELSE
       LET rowLatest == reverse(items)
           rpStreak == calcRowStreak(rowLatest, "type")
           rsStreak == calcRowStreak(rowLatest, "sizeType")
           parity == [ruleName |-> rule.label, type |-> "parity",
                      value |-> ParityLabel(rpStreak.value), count |-> rpStreak.count,
                      color |-> ParityColor(rpStreak.value),
                      threshold |-> threshold(rule),
                      nextHeight |-> rowNextHeight(rule, rowLatest, n),
                      rowId |-> r + 1]
           size == [ruleName |-> rule.label, type |-> "size",
                    value |-> SizeLabel(rsStreak.value), count |-> rsStreak.count,
                    color |-> SizeColor(rsStreak.value),
                    threshold |-> threshold(rule),
                    nextHeight |-> rowNextHeight(rule, rowLatest, n),
                    rowId |-> r + 1]
       IN (IF Reported(rpStreak.count, threshold(rule)) THEN <<parity>> ELSE <<>>)
          \o (IF Reported(rsStreak.count, threshold(rule)) THEN <<size>> ELSE <<>>)

\* Part B: for (let r = 0; r < rows; r++), rows r .. n-1
RECURSIVE BeadPart(_, _, _, _)
BeadPart(rule, chrono, r, n) ==
  IF r >= n THEN <<>>
  ELSE RowPart(rule, chrono, r, n) \o BeadPart(rule, chrono, r + 1, n)

\* results.sort((a, b) => b.count - a.count); the sort is stable
InsertByCount(s, d) ==
  LET k == Cardinality({i \in 1..Len(s) : s[i].count >= d.count})
  IN SubSeq(s, 1, k) \o <<d>> \o SubSeq(s, k + 1, Len(s))

RECURSIVE InsertAllByCount(_, _, _, _)
InsertAllByCount(s, lo, hi, acc) ==
  IF lo > hi THEN acc
  ELSE IF lo = hi THEN InsertByCount(acc, s[lo])
  ELSE LET mid == (lo + hi) \div 2
           left == InsertAllByCount(s, lo, mid, acc)
       IN IF left = left   \* the left half is evaluated first
          THEN InsertAllByCount(s, mid + 1, hi, left)
          ELSE left

sortByCount(s) == InsertAllByCount(s, 1, Len(s), <<>>)

\* the body of rules.forEach for one rule, from the results pushed so far
RuleStep(acc, blocks, rule) ==
  LET latestFirst == filtered(rule, blocks)
  IN IF Len(latestFirst) = 0 THEN acc
     ELSE [trendResults |-> acc.trendResults \o TrendPart(rule, latestFirst),
           beadResults |-> acc.beadResults
              \o BeadPart(rule, sortAscending(latestFirst), 0, beadRowsOf(rule))]

\* rules.forEach over the rules lo..hi
RECURSIVE RulesLoop(_, _, _, _, _)
RulesLoop(blocks, ruleList, lo, hi, acc) ==
  IF lo > hi THEN acc
  ELSE IF lo = hi THEN RuleStep(acc, blocks, ruleList[lo])
  ELSE LET mid == (lo + hi) \div 2
           left == RulesLoop(blocks, ruleList, lo, mid, acc)
       IN IF left = left   \* the left half is evaluated first
          THEN RulesLoop(blocks, ruleList, mid + 1, hi, left)
          ELSE left

DragonList(blocks, ruleList) ==
  IF Len(blocks) = 0
  THEN [trendDragons |-> <<>>, beadRowDragons |-> <<>>]
  ELSE LET acc == RulesLoop(blocks, ruleList, 1, Len(ruleList),
                            [trendResults |-> <<>>, beadResults |-> <<>>])
       IN [trendDragons |-> sortByCount(acc.trendResults),
           beadRowDragons |-> sortByCount(acc.beadResults)]

(***************************************************************************)
(* Inputs: rule lists, block values, starting histories.                   *)
(***************************************************************************)
Rule(n, v, s, tr, br) ==
  [id |-> n, label |-> n, value |-> v, startBlock |-> s, trendRows |-> tr, beadRows |-> br]

WithThreshold(rule, t) ==
  [f \in DOMAIN rule \cup {"dragonThreshold"} |->
     IF f = "dragonThreshold" THEN t ELSE rule[f]]

Rules ==
  << Rule("R1", 1, 0, 6, 1),
     WithThreshold(Rule("R2", 1, 25, 6, 2), 2),
     WithThreshold(Rule("R3", 2, 0, 3, 2), 0),
     WithThreshold(Rule("R4", 2, 3, 6, 3), 2),
     WithThreshold(Rule("R5", 3, 0, 6, 0), 1),
     WithThreshold(Rule("R6", 5, 40, 6, 2), 2),
     WithThreshold(Rule("R7", 1, 0, 6, 3), 4),
     WithThreshold(Rule("R8", 0, 0, 6, 2), 2) >>

\* one resultValue for each pair (type, sizeType) but (ODD, BIG)
ResultValues == {1, 4, 6}

\* the history a run may start from: heights 1..BaseLen without a gap, three
\* times (ODD, BIG), then (EVEN, SMALL) and (ODD, SMALL) in turn
BaseValue(h) == IF h <= 3 THEN 9 ELSE IF h % 2 = 0 THEN 4 ELSE 1

BaseBlocks == [h \in 1..BaseLen |-> transformTronBlock(h, BaseValue(h))]

Heights(blocks) == {blocks[i].height : i \in 1..Len(blocks)}
NewHeights == (BaseLen + 1)..(BaseLen + HeightSpan)
NumNew(blocks) == Cardinality(Heights(blocks) \cap NewHeights)

(***************************************************************************)
(* The rendering pass: every output is recomputed from the inputs.         *)
(***************************************************************************)
Outputs(blocks, ruleList, key, n, tg, bg, td, bd) ==
  /\ tg = calculateTrendGrid(blocks, key, n)
  /\ bg = calculateBeadGrid(blocks, key, n)
  /\ td = DragonList(blocks, ruleList).trendDragons
  /\ bd = DragonList(blocks, ruleList).beadRowDragons

FetchIdle ==
  /\ pc = "idle" /\ retries = 0 /\ backoff = 0 /\ requests = 0
  /\ retries0 = 0 /\ backoff0 = 0 /\ lastError = "none" /\ result = "none"

Init ==
  /\ allBlocks \in {<<>>, BaseBlocks}
  /\ rules = Rules
  /\ typeKey \in TypeKeys
  /\ rows \in 1..MaxRows
  /\ Outputs(allBlocks, rules, typeKey, rows, trendGrid, beadGrid, trendDragons, beadRowDragons)
  /\ FetchIdle

\* a new block is delivered: allBlocks changes and the outputs are recomputed
AddBlock(h, v) ==
  /\ h \notin Heights(allBlocks)
  /\ NumNew(allBlocks) < MaxNew
  /\ allBlocks' = Append(allBlocks, transformTronBlock(h, v))
  /\ UNCHANGED <<rules, typeKey, rows>>
  /\ Outputs(allBlocks', rules', typeKey', rows', trendGrid', beadGrid', trendDragons', beadRowDragons')
  /\ UNCHANGED fetchVars

\* the grids are requested for another axis or row count
SetView(key, n) ==
  /\ <<key, n>> # <<typeKey, rows>>
  /\ typeKey' = key
  /\ rows' = n
  /\ UNCHANGED <<allBlocks, rules, trendDragons, beadRowDragons>>
  /\ trendGrid' = calculateTrendGrid(allBlocks, key, n)
  /\ beadGrid' = calculateBeadGrid(allBlocks, key, n)
  /\ UNCHANGED fetchVars

Next ==
  \/ \E h \in NewHeights, v \in ResultValues : AddBlock(h, v)
  \/ \E key \in TypeKeys, n \in 1..MaxRows : SetView(key, n)

Spec == Init /\ [][Next]_vars

(***************************************************************************)
(* fetchWithRetry(url, options, retries = 3, backoff = 500)                *)
(*                                                                         *)
(* pc is the position of the call: "call" (about to run fetch),            *)
(* "fetching" (awaiting the response), "waiting" (await wait(backoff)),    *)
(* "resolved", "rejected".  The recursive call is returned without await,  *)
(* so its rejection does not pass through the caller's catch: the frames   *)
(* above the innermost one only forward its result.                        *)
(***************************************************************************)
DefaultRetries == 3

Backoffs == {DefaultBackoff, 2 * DefaultBackoff}

\* the errors an attempt can throw, other than the 429 one
Failures == {"HTTP Error", "data.Error", "network", "json"}
RateLimitError == "Rate limit exceeded (429). Please try again later."

\* the recursive call is made with retries unchanged
RetriesLeftSame(r) == r

\* the arguments of the recursive call
RetriesLeft(r) == r - 1
NextBackoff(b) == b * 2

FetchInit ==
  /\ allBlocks = <<>>
  /\ rules = Rules
  /\ typeKey = "type"
  /\ rows = 1
  /\ Outputs(allBlocks, rules, typeKey, rows, trendGrid, beadGrid, trendDragons, beadRowDragons)
  /\ pc = "call"
  /\ retries0 \in 0..MaxRetries
  /\ backoff0 \in Backoffs
  /\ retries = retries0
  /\ backoff = backoff0
  /\ requests = 0
  /\ lastError = "none"
  /\ result = "none"

\* const response = await fetch(url, options)
Request ==
  /\ pc = "call"
  /\ requests < MaxRequests
  /\ pc' = "fetching"
  /\ requests' = requests + 1
  /\ UNCHANGED <<retries, backoff, retries0, backoff0, lastError, result>>
  /\ UNCHANGED coreVars

\* the catch block, and the retries > 0 test of the 429 branch
Failed(error) ==
  /\ lastError' = error
  /\ IF retries > 0
     THEN pc' = "waiting" /\ result' = result
     ELSE pc' = "rejected" /\ result' = error

\* response.status === 429
Respond429 ==
  /\ pc = "fetching"
  /\ Failed(RateLimitError)
  /\ UNCHANGED <<retries, backoff, requests, retries0, backoff0>>
  /\ UNCHANGED coreVars

\* fetch throws, !response.ok, response.json() throws, data.Error
RespondFailure(error) ==
  /\ pc = "fetching"
  /\ Failed(error)
  /\ UNCHANGED <<retries, backoff, requests, retries0, backoff0>>
  /\ UNCHANGED coreVars

\* return data
RespondData ==
  /\ pc = "fetching"
  /\ pc' = "resolved"
  /\ result' = "data"
  /\ UNCHANGED <<retries, backoff, requests, retries0, backoff0, lastError>>
  /\ UNCHANGED coreVars

\* await wait(backoff); return fetchWithRetry(url, options, retries - 1, backoff * 2)
WaitDone ==
  /\ pc = "waiting"
  /\ pc' = "call"
  /\ retries' = RetriesLeft(retries)
  /\ backoff' = NextBackoff(backoff)
  /\ UNCHANGED <<requests, retries0, backoff0, lastError, result>>
  /\ UNCHANGED coreVars

FetchNext ==
  \/ Request
  \/ Respond429
  \/ \E error \in Failures : RespondFailure(error)
  \/ RespondData
  \/ WaitDone

\* the response arrives and the timer fires
FetchSpec == FetchInit /\ [][FetchNext]_vars /\ WF_vars(FetchNext)

(***************************************************************************)
(* Vocabulary of the properties.                                           *)
(***************************************************************************)
Range(s) == {s[i] : i \in 1..Len(s)}

\* the outcomes in ascending order of height (heights are unique)
AscendingByHeight(blocks) ==
  [k \in 1..Len(blocks) |->
     CHOOSE b \in Range(blocks) :
       Cardinality({x \in Range(blocks) : x.height < b.height}) = k - 1]

Populated(cell) == cell.type # null
PopulatedCount(column) == Cardinality({r \in 1..Len(column) : Populated(column[r])})

\* the populated cells of the columns lo..hi, column by column, top to bottom
RECURSIVE PopulatedCells(_, _, _)
PopulatedCells(grid, lo, hi) ==
  IF lo > hi THEN <<>>
  ELSE IF lo = hi THEN SelectSeq(grid[lo], Populated)
  ELSE LET mid == (lo + hi) \div 2
       IN PopulatedCells(grid, lo, mid) \o PopulatedCells(grid, mid + 1, hi)

\* the least k with k * n >= total
CeilingOf(total, n) == CHOOSE k \in 0..total : k * n >= total /\ (k = 0 \/ (k - 1) * n < total)

(***************************************************************************)
(* C1: for every outcome sequence, axis and rows >= 1 the trend grid has   *)
(* at least 24 columns and every column has exactly `rows` cells; for      *)
(* empty input it is exactly 24 columns of empty cells.                    *)
(***************************************************************************)
C1_TrendGridShape ==
  /\ Len(trendGrid) >= 24
  /\ \A c \in 1..Len(trendGrid) : Len(trendGrid[c]) = rows
  /\ Len(allBlocks) = 0 =>
       /\ Len(trendGrid) = 24
       /\ \A c \in 1..24 : \A r \in 1..rows : trendGrid[c][r] = [type |-> null]

\* a grid of more than 24 columns that holds a partly filled column
C1_Witness ==
  /\ Len(trendGrid) > 24
  /\ rows >= 2
  /\ \E c \in 1..Len(trendGrid) :
       Populated(trendGrid[c][1]) /\ ~Populated(trendGrid[c][rows])

(***************************************************************************)
(* C2: read column by column, top to bottom, the populated cells of the    *)
(* trend grid are the classifications of the outcomes in ascending height; *)
(* the populated cells of a column share one value and lie contiguously    *)
(* from the top; a column is followed by a column of the same value only   *)
(* if it holds `rows` populated cells, and no column holds more.           *)
(***************************************************************************)
C2_TrendGridContent ==
  LET asc == AscendingByHeight(allBlocks)
      cells == PopulatedCells(trendGrid, 1, Len(trendGrid))
  IN /\ Len(cells) = Len(asc)
     /\ \A i \in 1..Len(asc) : cells[i].type = asc[i][typeKey]
     /\ \A c \in 1..Len(trendGrid) :
          /\ PopulatedCount(trendGrid[c]) <= rows
          /\ \A r \in 1..Len(trendGrid[c]) :
               Populated(trendGrid[c][r]) =>
                 \A q \in 1..r : trendGrid[c][q].type = trendGrid[c][r].type
     /\ \A c \in 1..(Len(trendGrid) - 1) :
          Populated(trendGrid[c + 1][1]) =>
            /\ Populated(trendGrid[c][1])
            /\ \/ trendGrid[c][1].type # trendGrid[c + 1][1].type
               \/ PopulatedCount(trendGrid[c]) = rows

\* an unbroken run wraps into a second column and a later column differs
C2_Witness ==
  /\ rows >= 2
  /\ \E c \in 1..(Len(trendGrid) - 2) :
       /\ Populated(trendGrid[c][rows])
       /\ Populated(trendGrid[c + 1][1])
       /\ trendGrid[c + 1][1].type = trendGrid[c][1].type
       /\ Populated(trendGrid[c + 2][1])
       /\ trendGrid[c + 2][1].type # trendGrid[c + 1][1].type

(***************************************************************************)
(* C3: the bead grid has max(24, ceil(n / rows)) columns of `rows` cells;  *)
(* cell (c, r) holds the classification and resultValue of the outcome at  *)
(* index c * rows + r of the ascending order, or is empty past the end.    *)
(***************************************************************************)
C3_BeadGridContent ==
  LET asc == AscendingByHeight(allBlocks)
      total == Len(asc)
      ceiling == CeilingOf(total, rows)
  IN /\ Len(beadGrid) = IF ceiling > 24 THEN ceiling ELSE 24
     /\ \A c \in 1..Len(beadGrid) :
          /\ Len(beadGrid[c]) = rows
          /\ \A r \in 1..rows :
               LET index == (c - 1) * rows + (r - 1)
               IN beadGrid[c][r] =
                    IF index < total
                    THEN [type |-> asc[index + 1][typeKey],
                          value |-> asc[index + 1].resultValue]
                    ELSE [type |-> null]

\* the data needs more than 24 columns, within one run of equal classification
C3_Witness ==
  /\ Len(beadGrid) > 24
  /\ Populated(beadGrid[25][1])
  /\ beadGrid[25][1].type = beadGrid[24][1].type

(***************************************************************************)
(* Vocabulary of the dragon properties.                                    *)
(***************************************************************************)
Axes == {"parity", "size"}
AxisKey(axis) == IF axis = "parity" THEN "type" ELSE "sizeType"
KeyAxis(key) == IF key = "type" THEN "parity" ELSE "size"
AxisLabel(axis, v) ==
  IF axis = "parity" THEN (IF v = "ODD" THEN "dan" ELSE "shuang")
  ELSE (IF v = "BIG" THEN "da" ELSE "xiao")

\* the length of the run of equal values at the head of a non-empty sequence
LeadingRun(seq, key) ==
  CHOOSE k \in 1..Len(seq) :
    /\ \A i \in 1..k : seq[i][key] = seq[1][key]
    /\ k < Len(seq) => seq[k + 1][key] # seq[1][key]

\* rule.dragonThreshold, or 3 when it is absent or zero
ThresholdByClaim(rule) ==
  IF ~HasThreshold(rule) THEN 3
  ELSE IF rule.dragonThreshold = 0 THEN 3 ELSE rule.dragonThreshold

TrendEntries(rule, axis) ==
  {j \in 1..Len(trendDragons) :
     trendDragons[j].ruleName = rule.label /\ trendDragons[j].type = axis}

RowEntries(rule, axis, rowId) ==
  {j \in 1..Len(beadRowDragons) :
     /\ beadRowDragons[j].ruleName = rule.label
     /\ beadRowDragons[j].type = axis
     /\ beadRowDragons[j].rowId = rowId}

\* entries of `dragons` at the indices js report run `run` exactly when it reaches thr
ReportedIff(dragons, js, run, thr) ==
  /\ (js # {}) <=> (run >= thr)
  /\ Cardinality(js) <= 1
  /\ \A j \in js : dragons[j].count = run /\ dragons[j].threshold = thr

(***************************************************************************)
(* C4: for every rule with a non-empty aligned set and each axis, a trend  *)
(* dragon (and, for each non-empty row, a row dragon) is reported if and   *)
(* only if its leading run is at least the threshold, which is             *)
(* rule.dragonThreshold or 3 when that is absent or zero; the entry        *)
(* carries that count and that threshold.                                  *)
(***************************************************************************)
C4_ThresholdBoundary ==
  \A i \in 1..Len(rules) :
    LET rule == rules[i]
        latestFirst == filtered(rule, allBlocks)
        chrono == sortAscending(latestFirst)
        n == beadRowsOf(rule)
        thr == ThresholdByClaim(rule)
    IN Len(latestFirst) > 0 =>
         \A axis \in Axes :
           /\ ReportedIff(trendDragons, TrendEntries(rule, axis),
                          LeadingRun(latestFirst, AxisKey(axis)), thr)
           /\ \A r \in 0..(n - 1) :
                LET items == rowItems(chrono, r, n)
                IN Len(items) > 0 =>
                     ReportedIff(beadRowDragons, RowEntries(rule, axis, r + 1),
                                 LeadingRun(reverse(items), AxisKey(axis)), thr)

\* with the default threshold, a trend run of exactly 3 is reported while a
\* row run of exactly 2 is not
C4_Witness ==
  \E i \in 1..Len(rules) :
    LET rule == rules[i]
        latestFirst == filtered(rule, allBlocks)
        chrono == sortAscending(latestFirst)
        n == beadRowsOf(rule)
    IN /\ Len(latestFirst) > 0
       /\ (~HasThreshold(rule) \/ rule.dragonThreshold = 0)
       /\ \E axis \in Axes :
            /\ LeadingRun(latestFirst, AxisKey(axis)) = 3
            /\ TrendEntries(rule, axis) # {}
       /\ \E axis \in Axes, r \in 0..(n - 1) :
            /\ Len(rowItems(chrono, r, n)) > 0
            /\ LeadingRun(reverse(rowItems(chrono, r, n)), AxisKey(axis)) = 2
            /\ RowEntries(rule, axis, r + 1) = {}

(***************************************************************************)
(* C5: on a non-empty latest-first sequence the streak detector returns    *)
(* the first element's classification and a count between 1 and the        *)
(* length such that the first `count` elements have that value and the     *)
(* element after them, if any, differs.                                    *)
(***************************************************************************)
PrefixRun(streak, seq, key) ==
  /\ streak.value = seq[1][key]
  /\ streak.count >= 1
  /\ streak.count <= Len(seq)
  /\ \A i \in 1..streak.count : seq[i][key] = streak.value
  /\ streak.count < Len(seq) => seq[streak.count + 1][key] # streak.value

C5_LeadingRun ==
  \A i \in 1..Len(rules) :
    LET rule == rules[i]
        latestFirst == filtered(rule, allBlocks)
        chrono == sortAscending(latestFirst)
        n == beadRowsOf(rule)
    IN Len(latestFirst) > 0 =>
         \A key \in TypeKeys :
           /\ PrefixRun(calculateStreak(latestFirst, key), latestFirst, key)
           /\ \A r \in 0..(n - 1) :
                LET items == rowItems(chrono, r, n)
                IN Len(items) > 0 =>
                     PrefixRun(calcRowStreak(reverse(items), key), reverse(items), key)

\* the streak at the head has length 1 although a longer run of the same
\* value lies further back, in the trend sequence and in a row
C5_Witness ==
  \E i \in 1..Len(rules), key \in TypeKeys :
    LET rule == rules[i]
        latestFirst == filtered(rule, allBlocks)
        chrono == sortAscending(latestFirst)
        n == beadRowsOf(rule)
        Buried(seq) ==
          /\ Len(seq) >= 4
          /\ \E j \in 3..(Len(seq) - 1) :
               seq[j][key] = seq[1][key] /\ seq[j + 1][key] = seq[1][key]
    IN /\ Len(latestFirst) > 0
       /\ calculateStreak(latestFirst, key).count = 1
       /\ Buried(latestFirst)
       /\ \E r \in 0..(n - 1) :
            /\ Len(rowItems(chrono, r, n)) > 0
            /\ calcRowStreak(reverse(rowItems(chrono, r, n)), key).count = 1
            /\ Buried(reverse(rowItems(chrono, r, n)))

(***************************************************************************)
(* C6: the aligned set of a rule is every outcome when rule.value <= 1;    *)
(* else, when rule.startBlock > 0, the outcomes at startBlock plus a       *)
(* multiple of value; else the outcomes at a multiple of value.  It is     *)
(* held in descending height, and a rule whose aligned set is empty        *)
(* contributes no trend and no row dragon.                                 *)
(***************************************************************************)
AlignedByClaim(rule, h) ==
  IF rule.value <= 1 THEN TRUE
  ELSE IF rule.startBlock > 0
       THEN \E k \in 0..h : h = rule.startBlock + k * rule.value
       ELSE \E k \in 0..h : h = k * rule.value

C6_AlignedSet ==
  \A i \in 1..Len(rules) :
    LET rule == rules[i]
        latestFirst == filtered(rule, allBlocks)
    IN /\ Range(latestFirst) = {b \in Range(allBlocks) : AlignedByClaim(rule, b.height)}
       /\ \A j \in 1..(Len(latestFirst) - 1) :
            latestFirst[j].height > latestFirst[j + 1].height
       /\ Len(latestFirst) = 0 =>
            /\ \A j \in 1..Len(trendDragons) : trendDragons[j].ruleName # rule.label
            /\ \A j \in 1..Len(beadRowDragons) : beadRowDragons[j].ruleName # rule.label

\* one rule with a start block leaves out an outcome below the start block
\* that is a multiple of the step away from it, another rule has no aligned
\* outcome at all, and a third reports a dragon
C6_Witness ==
  /\ \E i \in 1..Len(rules) :
       /\ rules[i].value > 1
       /\ rules[i].startBlock > 0
       /\ Len(filtered(rules[i], allBlocks)) > 1
       /\ \E b \in Range(allBlocks) :
            /\ b.height < rules[i].startBlock
            /\ (rules[i].startBlock - b.height) % rules[i].value = 0
  /\ \E i \in 1..Len(rules) : Len(filtered(rules[i], allBlocks)) = 0
  /\ Len(trendDragons) > 0
  /\ Len(allBlocks) > BaseLen
  /\ allBlocks[Len(allBlocks)].height < allBlocks[Len(allBlocks) - 1].height

(***************************************************************************)
(* C7: for every rule with a non-empty aligned set and rows = beadRows >=  *)
(* 1, the outcomes of row r of the row partition are the populated cells   *)
(* of row r of the bead grid of the aligned set, read left to right; a row *)
(* dragon with rowId r + 1 is the run at the right-hand end of that row.   *)
(***************************************************************************)
GridRow(grid, r) == SelectSeq([c \in 1..Len(grid) |-> grid[c][r]], Populated)

C7_RowPartitionIsBeadRow ==
  \A i \in 1..Len(rules) :
    LET rule == rules[i]
        latestFirst == filtered(rule, allBlocks)
        chrono == sortAscending(latestFirst)
        n == rule.beadRows
        grid == calculateBeadGrid(latestFirst, typeKey, n)
    IN (Len(latestFirst) > 0 /\ n >= 1) =>
         \A r \in 0..(n - 1) :
           LET items == rowItems(chrono, r, n)
               row == GridRow(grid, r + 1)
           IN /\ row = [j \in 1..Len(items) |->
                          [type |-> items[j][typeKey], value |-> items[j].resultValue]]
              /\ \A j \in RowEntries(rule, KeyAxis(typeKey), r + 1) :
                   LET d == beadRowDragons[j]
                   IN /\ d.count <= Len(row)
                      /\ \A q \in (Len(row) - d.count + 1)..Len(row) :
                           AxisLabel(d.type, row[q].type) = d.value
                      /\ d.count < Len(row) =>
                           AxisLabel(d.type, row[Len(row) - d.count].type) # d.value

\* a rule with two or more rows that samples a part of the outcomes, fills
\* more than two columns, and reports on the axis of the grid a row dragon
\* that is shorter than its row
C7_Witness ==
  \E i \in 1..Len(rules) :
    LET rule == rules[i]
        latestFirst == filtered(rule, allBlocks)
        chrono == sortAscending(latestFirst)
        n == rule.beadRows
    IN /\ n >= 2
       /\ Len(latestFirst) > 2 * n
       /\ Len(latestFirst) < Len(allBlocks)
       /\ \E j \in 1..Len(beadRowDragons) :
            /\ beadRowDragons[j].ruleName = rule.label
            /\ beadRowDragons[j].type = KeyAxis(typeKey)
            /\ beadRowDragons[j].count
                 < Len(rowItems(chrono, beadRowDragons[j].rowId - 1, n))

(***************************************************************************)
(* Steps that append an outcome higher than every outcome present.         *)
(***************************************************************************)
AppendsHigher ==
  /\ Len(allBlocks') = Len(allBlocks) + 1
  /\ SubSeq(allBlocks', 1, Len(allBlocks)) = allBlocks
  /\ \A b \in Range(allBlocks) : allBlocks'[Len(allBlocks')].height > b.height
  /\ <<rules', typeKey', rows'>> = <<rules, typeKey, rows>>

IsPrefix(s, t) == Len(s) <= Len(t) /\ SubSeq(t, 1, Len(s)) = s

CellsKept(before, after) ==
  /\ Len(after) >= Len(before)
  /\ \A c \in 1..Len(before) : \A r \in 1..Len(before[c]) :
       Populated(before[c][r]) => after[c][r] = before[c][r]

(***************************************************************************)
(* C8: the nextHeight of a row dragon is the height at which the next      *)
(* occupant of its row lands: when the next aligned outcome arrives and is *)
(* placed in that row, it has exactly that height.  The trend nextHeight   *)
(* is the latest aligned height plus rule.value.                           *)
(***************************************************************************)
\* the appended outcome is the rule's next aligned outcome and lands in row rowId
LandsInRow(rule, latestFirst, rowId) ==
  /\ Len(latestFirst) > 0
  /\ allBlocks'[Len(allBlocks')].height = latestFirst[1].height + rule.value
  /\ AlignedByClaim(rule, allBlocks'[Len(allBlocks')].height)
  /\ (Len(latestFirst) % beadRowsOf(rule)) + 1 = rowId

C8_RowNextHeightStep ==
  AppendsHigher =>
    \A i \in 1..Len(rules) :
      \A latestFirst \in {filtered(rules[i], allBlocks)} :
        \A j \in 1..Len(beadRowDragons) :
          (/\ beadRowDragons[j].ruleName = rules[i].label
           /\ LandsInRow(rules[i], latestFirst, beadRowDragons[j].rowId))
            => allBlocks'[Len(allBlocks')].height = beadRowDragons[j].nextHeight

C8_TrendNextHeight ==
  \A i \in 1..Len(rules) : \A j \in 1..Len(trendDragons) :
    trendDragons[j].ruleName = rules[i].label =>
      trendDragons[j].nextHeight = filtered(rules[i], allBlocks)[1].height + rules[i].value

C8_NextHeightIsLanding == [][C8_TrendNextHeight /\ C8_RowNextHeightStep]_vars

(***************************************************************************)
(* C9: appending an outcome higher than every outcome present never moves  *)
(* or changes a populated cell of the bead grid or of the trend grid, and  *)
(* every outcome keeps its row in the row partition of every rule.         *)
(***************************************************************************)
C9_AppendKeeps ==
  AppendsHigher =>
    /\ CellsKept(trendGrid, trendGrid')
    /\ CellsKept(beadGrid, beadGrid')
    /\ \A i \in 1..Len(rules) :
         \A chrono \in {sortAscending(filtered(rules[i], allBlocks))},
            chronoAfter \in {sortAscending(filtered(rules[i], allBlocks'))} :
           \A r \in 0..(beadRowsOf(rules[i]) - 1) :
             IsPrefix(rowItems(chrono, r, beadRowsOf(rules[i])),
                      rowItems(chronoAfter, r, beadRowsOf(rules[i])))

C9_AppendOnlyGrids == [][C9_AppendKeeps]_vars

\* two outcomes were appended in ascending height to a history whose trend
\* grid is wider than 24 columns, the last one into a column that was open
C9_Witness ==
  /\ Len(allBlocks) >= BaseLen + 2
  /\ \A k \in 1..(Len(allBlocks) - 1) : allBlocks[k].height < allBlocks[k + 1].height
  /\ Len(trendGrid) > 24
  /\ rows >= 2
  /\ Populated(trendGrid[Len(trendGrid)][2])
  /\ \E i \in 1..Len(rules) :
       beadRowsOf(rules[i]) >= 2 /\ Len(filtered(rules[i], allBlocks)) > 2

(***************************************************************************)
(* C10: fetchWithRetry terminates and issues at most retries + 1 requests: *)
(* a failed attempt with retries > 0 leads to one further attempt with     *)
(* retries - 1 and the doubled backoff, a successful attempt resolves with *)
(* its data and no further request, and a failed attempt with retries = 0  *)
(* rejects with that attempt's error.                                      *)
(***************************************************************************)
RECURSIVE Pow2(_)
Pow2(k) == IF k <= 0 THEN 1 ELSE 2 * Pow2(k - 1)

Settled == pc \in {"resolved", "rejected"}

\* the number of attempts that have failed and been followed by the wait
Retried == IF pc = "call" THEN requests ELSE requests - 1

C10_Bounded ==
  pc # "idle" =>
    /\ requests <= retries0 + 1
    /\ retries = retries0 - Retried
    /\ retries >= 0
    /\ backoff = backoff0 * Pow2(Retried)
    /\ pc = "resolved" => result = "data"
    /\ pc = "rejected" => (retries = 0 /\ result = lastError /\ lastError # "none")
    /\ pc = "waiting" => retries > 0

C10_Step ==
  /\ Settled => UNCHANGED <<pc, requests, result>>
  /\ (pc = "fetching" /\ lastError' # lastError /\ retries > 0) => pc' = "waiting"
  /\ (pc = "fetching" /\ pc' = "rejected") => result' = lastError'
  /\ pc = "waiting" =>
       (pc' = "call" /\ retries' = retries - 1 /\ backoff' = 2 * backoff)

C10_FetchTerminates == []C10_Bounded /\ [][C10_Step]_vars /\ <>Settled

\* the default call fails four times and rejects after the fourth request
C10_Witness ==
  /\ pc = "rejected"
  /\ retries0 = DefaultRetries
  /\ requests = DefaultRetries + 1
  /\ backoff = 8 * backoff0

====
